---------------------------- MODULE Spec2Model ----------------------------
(* HoYoLAB auto check-in: the request executor (HoYoLabCore.make_request,  *)
(* _try_next_endpoint, HoYoLabCheckin._retry_request), the per-game        *)
(* workflow (HoYoLabCheckin.run), the cycle (HoYoLab.run_checkins), the    *)
(* scheduler loop (HoYoLab.start_loop) and the entry point (main).         *)
(*                                                                         *)
(* Two specifications share the variables:                                 *)
(*   SpecExec  one HoYoLabCheckin object per game, driven one HTTP attempt *)
(*             at a time by arbitrary server responses;                    *)
(*   Spec      the whole process, from main() to exit, where a logical     *)
(*             request is one step whose outcome is computed by folding    *)
(*             the same per-attempt step over the responses;               *)
(*   SpecSched ConfigManager.get_next_run_time applied to a wall clock     *)
(*             that moves forward.                                         *)
EXTENDS Integers, Sequences, FiniteSets, TLC

VARIABLES
    config,            \* ConfigManager.config (read-only after load)
    endpoint_index,    \* HoYoLabCore.endpoint_index, per game object
    current_endpoint,  \* HoYoLabCore.current_endpoint, per game object
    advances,          \* history: calls of _try_next_endpoint that returned True
    req,               \* the logical request in progress (SpecExec)
    call,              \* the client operation that issued it (SpecExec): its
                       \* return value, the send_notification calls made (the
                       \* success flag of each) and whether the cookie help was
                       \* printed
    cookie_ok,         \* games whose cookie file holds every required cookie
    pc,                \* where the process is: main, cycle, loop_top, loop_wait,
                       \* retry_sleep, cooldown, exited
    clients,           \* HoYoLab.clients: the games with a HoYoLabCheckin object
    cyc,               \* the locals of run_checkins while it runs: caller, games
                       \* to go, success, results; history: the games run and
                       \* those that raised
    last_run,          \* history: the game and the outcome of the latest run()
                       \* of the cycle in progress
    run_count,         \* ConfigManager.run_count
    last_success,      \* ConfigManager.last_success
    sleep_secs,        \* start_loop's sleep_secs, as last computed
    until_due,         \* next_run minus the wall clock, in seconds
    last_sleep,        \* history: seconds of the latest time.sleep call
    cycles,            \* history: calls of run_checkins so far
    exit_code,         \* the process's exit status, once pc = "exited"
    stop_reason,       \* history: why the process ended
    stopped_at,        \* history: where the process was when it ended
    now,               \* the wall clock, datetime.now(timezone.utc) (SpecSched)
    next_run,          \* the latest value of get_next_run_time and the instant
                       \* it was computed at (SpecSched)
    award_payload,     \* the award payload given to _format_reward_name
                       \* (SpecReward)
    formatted          \* what _format_reward_name returned for it (SpecReward)

execVars == <<endpoint_index, current_endpoint, advances, req, call>>
procVars == <<cookie_ok, pc, clients, cyc, last_run, run_count, last_success,
              sleep_secs, until_due, last_sleep, cycles, exit_code, stop_reason,
              stopped_at>>
schedVars == <<now, next_run>>
rewardVars == <<award_payload, formatted>>
vars == <<config, execVars, procVars, schedVars, rewardVars>>

-----------------------------------------------------------------------------
(* Bounds of the model *)

\* largest settings.max_retries explored
MaxRetries == 3
\* run_checkins is called at most this often in one behaviour
MaxCycles == 3
\* longest wait for next_run explored, in seconds
MaxWait == 2

-----------------------------------------------------------------------------
(* Static game registry: src/src/game_config.py *)

Games == {"gi", "hi3", "hsr", "zzz"}

Primary(g) ==
    CASE g = "hsr" -> "https://sg-public-api.hoyolab.com"
      [] g = "gi"  -> "https://sg-hk4e-api.hoyoverse.com"
      [] g = "zzz" -> "https://sg-act-nap-api.hoyolab.com"
      [] g = "hi3" -> "https://sg-public-api.hoyolab.com"

Fallback(g) ==
    CASE g = "hsr" -> <<"https://sg-hk4e-api.hoyolab.com", "https://api-os-takumi.mihoyo.com">>
      [] g = "gi"  -> <<"https://sg-hk4e-api.hoyolab.com", "https://hk4e-api-os.hoyoverse.com">>
      [] g = "zzz" -> <<"https://sg-public-api.hoyolab.com", "https://api-os-takumi.mihoyo.com">>
      [] g = "hi3" -> <<"https://api-os-takumi.mihoyo.com", "https://sg-hk4e-api.hoyolab.com">>

-----------------------------------------------------------------------------
(* Configuration: src/src/config_manager.py DEFAULT_CONFIG *)

\* loop.daily_time is kept as the text of the file, one character per entry
DefaultConfig ==
    [ enabled               |-> {"hsr", "gi"},
      run_on_start          |-> TRUE,
      show_detailed_rewards |-> TRUE,
      delay_between_games   |-> 3,
      max_retries           |-> 3,
      language              |-> "en-us",
      loop_enabled          |-> TRUE,
      mode                  |-> "daily",
      max_runs              |-> 0,
      interval_hours        |-> 24,
      daily_time            |-> <<"0", "9", ":", "0", "0">>,
      retry_failed          |-> TRUE,
      retry_delay_minutes   |-> 30 ]

-----------------------------------------------------------------------------
(* What one call of session.request + raise_for_status + json() can give   *)
(* make_request: a parsed body, or one of the RequestException classes the *)
(* except clause tells apart.                                              *)

\* the retcodes make_request and its callers tell apart, and one other code
RetCodes == {0, -5003, -100, -500001, -1, -10001, -5001}

Body(rc) == [kind |-> "json", has_retcode |-> TRUE, retcode |-> rc]
\* a parsed body without a "retcode" key
BodyNoRetcode == [kind |-> "json", has_retcode |-> FALSE, retcode |-> 0]
Raised(k) == [kind |-> k, has_retcode |-> FALSE, retcode |-> 0]

\* timeout: requests.exceptions.Timeout; http401/http429/http5xx: HTTPError
\* by status; conn: any other RequestException (connection reset, ...)
ErrorKinds == {"timeout", "http401", "http429", "http5xx", "conn"}

Responses == {Body(rc) : rc \in RetCodes} \cup {BodyNoRetcode}
                \cup {Raised(k) : k \in ErrorKinds}

\* the failures the specification calls transient
TransientKinds == {"timeout", "conn", "http5xx", "http429"}

\* make_request's return value None
None == [kind |-> "none", has_retcode |-> FALSE, retcode |-> 0]

-----------------------------------------------------------------------------
(* HoYoLabCore._try_next_endpoint: the returned flag and the new state *)

\* mutant: an exhausted list wraps around to its first entry
TryNextEndpointWrap(g, idx, cur) ==
    LET endpoints == Fallback(g) IN
    IF idx < Len(endpoints)
    THEN [ret |-> TRUE, idx |-> idx + 1, cur |-> endpoints[idx + 1]]
    ELSE [ret |-> TRUE, idx |-> 1, cur |-> endpoints[1]]

\* mutant: the cursor moves on although no fallback is left
TryNextEndpointUnguarded(g, idx, cur) ==
    LET endpoints == Fallback(g) IN
    IF idx < Len(endpoints)
    THEN [ret |-> TRUE, idx |-> idx + 1, cur |-> endpoints[idx + 1]]
    ELSE [ret |-> TRUE, idx |-> idx + 1, cur |-> cur]

\* mutant: with no fallback left the object starts again at the primary
TryNextEndpointReset(g, idx, cur) ==
    LET endpoints == Fallback(g) IN
    IF idx < Len(endpoints)
    THEN [ret |-> TRUE, idx |-> idx + 1, cur |-> endpoints[idx + 1]]
    ELSE [ret |-> TRUE, idx |-> 0, cur |-> Primary(g)]

TryNextEndpoint(g, idx, cur) ==
    LET endpoints == Fallback(g) IN
    IF idx < Len(endpoints)
    THEN [ret |-> TRUE, idx |-> idx + 1, cur |-> endpoints[idx + 1]]
    ELSE [ret |-> FALSE, idx |-> idx, cur |-> cur]

\* data.get("retcode", -1)
RetcodeOrDefault(resp) == IF resp.has_retcode THEN resp.retcode ELSE -1

\* mutant: HTTP 401 is retried like HTTP 429
AttemptStepRetries401(g, idx, cur, resp) ==
    LET adv  == TryNextEndpoint(g, idx, cur)
        keep == [idx |-> idx, cur |-> cur]
        Out(returns, result, called, st) ==
            [returns |-> returns, result |-> result, adv_called |-> called,
             adv_ret |-> called /\ adv.ret, idx |-> st.idx, cur |-> st.cur]
    IN
    IF resp.kind = "json"
    THEN LET rc == RetcodeOrDefault(resp) IN
         IF rc \in {0, -5003}
         THEN Out(TRUE, resp, FALSE, keep)
         ELSE IF rc \in {-500001, -1, -10001}
         THEN IF adv.ret
              THEN Out(FALSE, None, TRUE, adv)
              ELSE Out(TRUE, resp, TRUE, adv)
         ELSE Out(TRUE, resp, FALSE, keep)
    ELSE IF resp.kind = "timeout"
    THEN IF adv.ret
         THEN Out(FALSE, None, TRUE, adv)
         ELSE Out(TRUE, None, TRUE, adv)
    ELSE IF resp.kind = "http401"
    THEN Out(FALSE, None, FALSE, keep)
    ELSE IF resp.kind = "http429"
    THEN Out(FALSE, None, FALSE, keep)
    ELSE Out(TRUE, None, FALSE, keep)

\* mutant: a retryable retcode is retried also when no fallback is left
AttemptStepRetriesRetcode(g, idx, cur, resp) ==
    LET adv  == TryNextEndpoint(g, idx, cur)
        keep == [idx |-> idx, cur |-> cur]
        Out(returns, result, called, st) ==
            [returns |-> returns, result |-> result, adv_called |-> called,
             adv_ret |-> called /\ adv.ret, idx |-> st.idx, cur |-> st.cur]
    IN
    IF resp.kind = "json"
    THEN LET rc == RetcodeOrDefault(resp) IN
         IF rc \in {0, -5003}
         THEN Out(TRUE, resp, FALSE, keep)
         ELSE IF rc \in {-500001, -1, -10001}
         THEN IF adv.ret
              THEN Out(FALSE, None, TRUE, adv)
              ELSE Out(FALSE, None, TRUE, adv)
         ELSE Out(TRUE, resp, FALSE, keep)
    ELSE IF resp.kind = "timeout"
    THEN IF adv.ret
         THEN Out(FALSE, None, TRUE, adv)
         ELSE Out(TRUE, None, TRUE, adv)
    ELSE IF resp.kind = "http401"
    THEN Out(TRUE, None, FALSE, keep)
    ELSE IF resp.kind = "http429"
    THEN Out(FALSE, None, FALSE, keep)
    ELSE Out(TRUE, None, FALSE, keep)

\* mutant: HTTP 429 moves to the next fallback like a timeout
AttemptStepAdvancesOn429(g, idx, cur, resp) ==
    LET adv  == TryNextEndpoint(g, idx, cur)
        keep == [idx |-> idx, cur |-> cur]
        Out(returns, result, called, st) ==
            [returns |-> returns, result |-> result, adv_called |-> called,
             adv_ret |-> called /\ adv.ret, idx |-> st.idx, cur |-> st.cur]
    IN
    IF resp.kind = "json"
    THEN LET rc == RetcodeOrDefault(resp) IN
         IF rc \in {0, -5003}
         THEN Out(TRUE, resp, FALSE, keep)
         ELSE IF rc \in {-500001, -1, -10001}
         THEN IF adv.ret
              THEN Out(FALSE, None, TRUE, adv)
              ELSE Out(TRUE, resp, TRUE, adv)
         ELSE Out(TRUE, resp, FALSE, keep)
    ELSE IF resp.kind = "timeout"
    THEN IF adv.ret
         THEN Out(FALSE, None, TRUE, adv)
         ELSE Out(TRUE, None, TRUE, adv)
    ELSE IF resp.kind = "http401"
    THEN Out(TRUE, None, FALSE, keep)
    ELSE IF resp.kind = "http429"
    THEN Out(FALSE, None, TRUE, adv)
    ELSE Out(TRUE, None, FALSE, keep)

(* One iteration of make_request's for loop, given the response of its     *)
(* session.request call: whether the function returns in this iteration    *)
(* (and what), whether _try_next_endpoint was called (and what it gave),   *)
(* and the endpoint state afterwards. "continue" is returns = FALSE.       *)
AttemptStep(g, idx, cur, resp) ==
    LET adv  == TryNextEndpoint(g, idx, cur)
        keep == [idx |-> idx, cur |-> cur]
        Out(returns, result, called, st) ==
            [returns |-> returns, result |-> result, adv_called |-> called,
             adv_ret |-> called /\ adv.ret, idx |-> st.idx, cur |-> st.cur]
    IN
    IF resp.kind = "json"
    THEN LET rc == RetcodeOrDefault(resp) IN
         IF rc \in {0, -5003}
         THEN Out(TRUE, resp, FALSE, keep)
         ELSE IF rc \in {-500001, -1, -10001}
         THEN IF adv.ret
              THEN Out(FALSE, None, TRUE, adv)
              ELSE Out(TRUE, resp, TRUE, adv)
         ELSE Out(TRUE, resp, FALSE, keep)
    ELSE IF resp.kind = "timeout"
    THEN IF adv.ret
         THEN Out(FALSE, None, TRUE, adv)
         ELSE Out(TRUE, None, TRUE, adv)
    ELSE IF resp.kind = "http401"
    THEN Out(TRUE, None, FALSE, keep)
    ELSE IF resp.kind = "http429"
    THEN Out(FALSE, None, FALSE, keep)
    ELSE Out(TRUE, None, FALSE, keep)

-----------------------------------------------------------------------------
(* A logical request as one step: every result make_request can return,    *)
(* with the endpoint state it leaves, over all sequences of responses.     *)

\* make_request from iteration `attempt` on, with n = max_retries
RECURSIVE MakeRequestFrom(_, _, _, _, _)
MakeRequestFrom(g, idx, cur, attempt, n) ==
    IF attempt >= n
    THEN {[result |-> None, idx |-> idx, cur |-> cur]}
    ELSE UNION { LET out == AttemptStep(g, idx, cur, resp) IN
                 IF out.returns
                 THEN {[result |-> out.result, idx |-> out.idx, cur |-> out.cur]}
                 ELSE MakeRequestFrom(g, out.idx, out.cur, attempt + 1, n)
               : resp \in Responses }

\* the URLs a game object can hold
Urls(g) == {Primary(g)} \cup {Fallback(g)[i] : i \in 1..Len(Fallback(g))}

\* make_request tabulated over the endpoint state, for the default max_retries
RequestTable ==
    [g \in Games |->
      [idx \in 0..Len(Fallback(g)) |->
        [cur \in Urls(g) |->
          MakeRequestFrom(g, idx, cur, 0, DefaultConfig.max_retries)]]]

\* _retry_request: its first iteration returns make_request's value
RetryRequest(g, idx, cur, n) ==
    IF n = DefaultConfig.max_retries
    THEN RequestTable[g][idx][cur]
    ELSE MakeRequestFrom(g, idx, cur, 0, n)

\* data and data.get("retcode") == 0
IsRetcode(result, rc) ==
    result.kind = "json" /\ result.has_retcode /\ result.retcode = rc

-----------------------------------------------------------------------------
(* The workflow of one game: HoYoLabCheckin.run and what it calls. The     *)
(* payload members the code reads without a default are inputs: the status *)
(* "data" object and its "total_sign_day", the "award" of a sign response, *)
(* the "data" of a reward response.                                        *)

\* the languages the message tables of hoyolab_client.py and REWARD_NAMES
\* have an entry for; indexing them with another language raises KeyError
Languages == {"en-us", "zh-cn"}

\* get_checkin_info's return value: None (or an empty object), or the status
NoInfo == [present |-> FALSE, is_sign |-> FALSE, has_total |-> FALSE]
Infos == {NoInfo} \cup [present : {TRUE}, is_sign : BOOLEAN, has_total : BOOLEAN]

\* what a client operation did besides its request: how it ended, the
\* success flag of each send_notification call, whether _show_cookie_help
\* printed its table
Done(ret, info, notes, help) ==
    [ret |-> ret, info |-> info, notes |-> notes, help |-> help]

(* get_checkin_info, lines 104-111, given the value of _retry_request and  *)
(* the "data" member of the body: on no data or retcode # 0 the cookie     *)
(* help for retcode -100 (it raises KeyError for a language without a      *)
(* table), then one failure notification and None; otherwise               *)
(* data.get("data").                                                       *)
CheckinInfoOutcome(result, lang, info) ==
    IF IsRetcode(result, 0)
    THEN Done(IF info.present THEN "info" ELSE "none", info, <<>>, FALSE)
    ELSE IF IsRetcode(result, -100)
    THEN IF lang \in Languages
         THEN Done("none", NoInfo, <<FALSE>>, TRUE)
         ELSE Done("raised", NoInfo, <<>>, FALSE)
    ELSE Done("none", NoInfo, <<FALSE>>, FALSE)

(* perform_checkin, lines 144-163, given the value of _retry_request and   *)
(* whether the body of a retcode 0 response carries data.award: no data    *)
(* returns False at once; retcode 0 formats data["data"]["award"] (which   *)
(* raises without an award or for a language without a table); -100 shows  *)
(* the cookie help (which raises for a language without a table); then     *)
(* one notification flagged code in (0, -5003), which is also the return   *)
(* value.                                                                  *)
PerformCheckinOutcome(result, lang, award) ==
    IF result.kind # "json"
    THEN Done("false", NoInfo, <<>>, FALSE)
    ELSE IF IsRetcode(result, 0)
    THEN IF award /\ lang \in Languages
         THEN Done("true", NoInfo, <<TRUE>>, FALSE)
         ELSE Done("raised", NoInfo, <<>>, FALSE)
    ELSE IF IsRetcode(result, -5003)
    THEN Done("true", NoInfo, <<TRUE>>, FALSE)
    ELSE IF IsRetcode(result, -100)
    THEN IF lang \in Languages
         THEN Done("false", NoInfo, <<FALSE>>, TRUE)
         ELSE Done("raised", NoInfo, <<>>, FALSE)
    ELSE Done("false", NoInfo, <<FALSE>>, FALSE)

(* get_today_reward / get_next_reward, lines 113-128, given the value of   *)
(* _retry_request and whether the reward lookup goes through: for retcode  *)
(* 0, data["data"] raises when the body carries no data, and so does       *)
(* _format_reward_name when the day is in the list and the language has no *)
(* table; every other path returns. No notification is sent.               *)
RewardOutcome(result, readable) ==
    IF IsRetcode(result, 0) /\ ~readable
    THEN Done("raised", NoInfo, <<>>, FALSE)
    ELSE Done("ok", NoInfo, <<>>, FALSE)

\* get_checkin_info as one step: the request, then lines 104-111
GetCheckinInfo(g, idx, cur, lang, n) ==
    UNION { { LET d == CheckinInfoOutcome(o.result, lang, i) IN
              [info |-> d.info, raised |-> d.ret = "raised", idx |-> o.idx, cur |-> o.cur]
            : i \in Infos }
          : o \in RetryRequest(g, idx, cur, n) }

\* perform_checkin as one step: the request, then lines 144-163
PerformCheckin(g, idx, cur, lang, n) ==
    UNION { { [ret |-> PerformCheckinOutcome(o.result, lang, award).ret,
               idx |-> o.idx, cur |-> o.cur]
            : award \in BOOLEAN }
          : o \in RetryRequest(g, idx, cur, n) }

\* get_today_reward / get_next_reward as one step
GetReward(g, idx, cur, lang, n) ==
    UNION { { [ret |-> RewardOutcome(o.result, readable).ret,
               idx |-> o.idx, cur |-> o.cur]
            : readable \in BOOLEAN }
          : o \in RetryRequest(g, idx, cur, n) }

\* what run() leaves: how it ended, the calls it made in order, what the
\* first status fetch reported, what the status re-fetch after the check-in
\* gave ("none": not made; "fresh": a status; "kept": None, the earlier
\* status is kept; "raised"), and the endpoint state
Ended(ret, ops, first, again, st) ==
    [ret |-> ret, ops |-> ops, first |-> first, again |-> again,
     idx |-> st.idx, cur |-> st.cur]

\* display_status: msg = {...}[self.lang], then the table; run() returns True
DisplayStatus(ops, first, again, st, lang) ==
    Ended(IF lang \in Languages THEN "true" ELSE "raised",
          ops \o <<"display">>, first, again, st)

(* run(), lines 205-208: the reward fetches when show_detailed_rewards is  *)
(* set (info["total_sign_day"] is read before get_next_reward is called),  *)
(* display_status, return True.                                            *)
Report(g, info, st, ops, first, again, show, lang, n) ==
    IF ~show
    THEN {DisplayStatus(ops, first, again, st, lang)}
    ELSE UNION { IF t.ret = "raised"
                 THEN {Ended("raised", ops \o <<"today">>, first, again, t)}
                 ELSE IF ~info.has_total
                 THEN {Ended("raised", ops \o <<"today">>, first, again, t)}
                 ELSE { IF x.ret = "raised"
                        THEN Ended("raised", ops \o <<"today", "next">>, first, again, x)
                        ELSE DisplayStatus(ops \o <<"today", "next">>, first, again, x, lang)
                      : x \in GetReward(g, t.idx, t.cur, lang, n) }
               : t \in GetReward(g, st.idx, st.cur, lang, n) }

(* run(), lines 196-204: status fetch; check-in when not signed; status    *)
(* re-fetch, keeping the earlier status when the re-fetch fails.           *)
Run(g, idx, cur, show, lang, n) ==
    UNION { IF a.raised
            THEN {Ended("raised", <<"status">>, "none", "none", a)}
            ELSE IF ~a.info.present
            THEN {Ended("false", <<"status">>, "none", "none", a)}
            ELSE IF a.info.is_sign
            THEN Report(g, a.info, a, <<"status">>, "signed", "none", show, lang, n)
            ELSE UNION { IF b.ret # "true"
                         THEN {Ended(b.ret, <<"status", "sign">>, "unsigned", "none", b)}
                         ELSE UNION { IF c.raised
                                      THEN {Ended("raised", <<"status", "sign", "status">>,
                                                  "unsigned", "raised", c)}
                                      ELSE Report(g, IF c.info.present THEN c.info ELSE a.info,
                                                  c, <<"status", "sign", "status">>,
                                                  "unsigned",
                                                  IF c.info.present THEN "fresh" ELSE "kept",
                                                  show, lang, n)
                                    : c \in GetCheckinInfo(g, b.idx, b.cur, lang, n) }
                       : b \in PerformCheckin(g, a.idx, a.cur, lang, n) }
          : a \in GetCheckinInfo(g, idx, cur, lang, n) }

\* the values of settings.language explored: a language with message tables
\* and one without
LanguageChoices == {"en-us", "ja-jp"}

\* run() tabulated over the endpoint state and the settings it reads (Spec
\* leaves max_retries at its default)
RunTable ==
    [g \in Games |->
      [idx \in 0..Len(Fallback(g)) |->
        [cur \in Urls(g) |->
          [show \in BOOLEAN |->
            [lang \in LanguageChoices |->
              [n \in {DefaultConfig.max_retries} |->
                 Run(g, idx, cur, show, lang, n)]]]]]]

-----------------------------------------------------------------------------
(* Time: the datetime values get_next_run_time computes with, as the       *)
(* fields of a UTC datetime; day counts the days since the first one.      *)

DateTime(d, h, m, sec, us) ==
    [day |-> d, hour |-> h, minute |-> m, second |-> sec, microsecond |-> us]

\* the fields in the order datetime compares them
Fields(t) == <<t.day, t.hour, t.minute, t.second, t.microsecond>>

\* a < b on datetimes
Before(a, b) ==
    \E i \in 1..5 :
        /\ Fields(a)[i] < Fields(b)[i]
        /\ \A j \in 1..(i - 1) : Fields(a)[j] = Fields(b)[j]

\* a <= b on datetimes
NotAfter(a, b) == a = b \/ Before(a, b)

\* t + timedelta(days=k)
AddDays(t, k) == [t EXCEPT !.day = @ + k]

\* t + timedelta(hours=k)
AddHours(t, k) ==
    [t EXCEPT !.day = @ + ((t.hour + k) \div 24), !.hour = (t.hour + k) % 24]

\* text.split(':')
RECURSIVE Split(_)
Split(text) ==
    LET colons == {i \in 1..Len(text) : text[i] = ":"} IN
    IF colons = {}
    THEN <<text>>
    ELSE LET i == CHOOSE c \in colons : \A d \in colons : c <= d IN
         <<SubSeq(text, 1, i - 1)>> \o Split(SubSeq(text, i + 1, Len(text)))

DigitValue(c) ==
    CASE c = "0" -> 0 [] c = "1" -> 1 [] c = "2" -> 2 [] c = "3" -> 3
      [] c = "4" -> 4 [] c = "5" -> 5 [] c = "6" -> 6 [] c = "7" -> 7
      [] c = "8" -> 8 [] c = "9" -> 9

\* does int(text) return (decimal digits only are considered)
IsInt(text) ==
    /\ text # <<>>
    /\ \A i \in 1..Len(text) :
          text[i] \in {"0", "1", "2", "3", "4", "5", "6", "7", "8", "9"}

\* int(text)
RECURSIVE ParseInt(_)
ParseInt(text) ==
    IF text = <<>> THEN 0
    ELSE ParseInt(SubSeq(text, 1, Len(text) - 1)) * 10 + DigitValue(text[Len(text)])

\* mutant: an instant equal to now is not rolled over
RolloverStrict(candidate, t) ==
    IF Before(candidate, t) THEN AddDays(candidate, 1) ELSE candidate

\* lines 222-224: if next_run <= now: next_run += timedelta(days=1)
Rollover(candidate, t) ==
    IF NotAfter(candidate, t) THEN AddDays(candidate, 1) ELSE candidate

(* ConfigManager.get_next_run_time with now = t. The except clause of      *)
(* lines 225-228 takes what does not unpack into two integers or what      *)
(* now.replace refuses.                                                    *)
GetNextRunTime(cfg, t) ==
    IF cfg.mode = "daily"
    THEN LET parts == Split(cfg.daily_time) IN
         IF /\ Len(parts) = 2
            /\ IsInt(parts[1]) /\ IsInt(parts[2])
            /\ ParseInt(parts[1]) \in 0..23 /\ ParseInt(parts[2]) \in 0..59
         THEN Rollover([t EXCEPT !.hour = ParseInt(parts[1]),
                                 !.minute = ParseInt(parts[2]),
                                 !.second = 0, !.microsecond = 0], t)
         ELSE AddHours(t, 24)
    ELSE AddHours(t, cfg.interval_hours)

\* get_next_run_time has not been called
NoCall == [at |-> DateTime(0, 0, 0, 0, 0), called |-> FALSE,
           value |-> DateTime(0, 0, 0, 0, 0)]

\* the clock and the schedule where they are not looked at
SchedIdle ==
    /\ now = DateTime(0, 0, 0, 0, 0)
    /\ next_run = NoCall

-----------------------------------------------------------------------------
(* SpecReward: _format_reward_name as a function of the award payload and  *)
(* of the language. A string is the sequence of its characters; a          *)
(* character outside ASCII is written by its code point, "U+1F48E".        *)

\* the ASCII letters, as str.lower pairs them
Uppercase == <<"A", "B", "C", "D", "E", "F", "G", "H", "I", "J", "K", "L", "M", "N", "O", "P", "Q", "R", "S", "T", "U", "V", "W", "X", "Y", "Z">>
Lowercase == <<"a", "b", "c", "d", "e", "f", "g", "h", "i", "j", "k", "l", "m", "n", "o", "p", "q", "r", "s", "t", "u", "v", "w", "x", "y", "z">>

\* str.lower on one character
LowerChar(c) ==
    IF \E i \in DOMAIN Uppercase : Uppercase[i] = c
    THEN Lowercase[CHOOSE i \in DOMAIN Uppercase : Uppercase[i] = c]
    ELSE c

\* mutant: the name is matched as it is spelt
LowerIdentity(s) == s

\* str.lower
Lower(s) == [i \in DOMAIN s |-> LowerChar(s[i])]

\* key in name: key is a substring of name
Contains(key, name) ==
    \E i \in 0..(Len(name) - Len(key)) : SubSeq(name, i + 1, i + Len(key)) = key

\* GameConfig.REWARD_NAMES: per language the entries in the order of the
\* dict, which is the order the for loop tries them in
REWARD_NAMES ==
       "en-us" :> <<
        [key |-> <<"m", "o", "r", "a">>,
         fmt |-> <<"U+1F4B0", " ", "M", "o", "r", "a">>],
        [key |-> <<"p", "r", "i", "m", "o", "g", "e", "m">>,
         fmt |-> <<"U+1F48E", " ", "P", "r", "i", "m", "o", "g", "e", "m">>],
        [key |-> <<"s", "t", "e", "l", "l", "a", "r", "_", "j", "a", "d", "e">>,
         fmt |-> <<"U+1F48E", " ", "S", "t", "e", "l", "l", "a", "r", " ", "J", "a", "d", "e">>],
        [key |-> <<"p", "o", "l", "y", "c", "h", "r", "o", "m", "e">>,
         fmt |-> <<"U+1F308", " ", "P", "o", "l", "y", "c", "h", "r", "o", "m", "e">>],
        [key |-> <<"c", "r", "y", "s", "t", "a", "l">>,
         fmt |-> <<"U+1F48E", " ", "C", "r", "y", "s", "t", "a", "l">>],
        [key |-> <<"c", "r", "e", "d", "i", "t">>,
         fmt |-> <<"U+1F4B0", " ", "C", "r", "e", "d", "i", "t">>],
        [key |-> <<"d", "e", "n", "n", "y">>,
         fmt |-> <<"U+1F4B0", " ", "D", "e", "n", "n", "y">>],
        [key |-> <<"e", "x", "p">>,
         fmt |-> <<"U+1F4DA", " ", "E", "X", "P", " ", "M", "a", "t", "e", "r", "i", "a", "l">>],
        [key |-> <<"e", "n", "h", "a", "n", "c", "e", "m", "e", "n", "t", "_", "o", "r", "e">>,
         fmt |-> <<"U+26A1", " ", "E", "n", "h", "a", "n", "c", "e", "m", "e", "n", "t", " ", "O", "r", "e">>],
        [key |-> <<"m", "y", "s", "t", "i", "c", "_", "e", "n", "h", "a", "n", "c", "e", "m", "e", "n", "t", "_", "o", "r", "e">>,
         fmt |-> <<"U+2B50", " ", "M", "y", "s", "t", "i", "c", " ", "E", "n", "h", "a", "n", "c", "e", "m", "e", "n", "t", " ", "O", "r", "e">>],
        [key |-> <<"h", "e", "r", "o", "_", "w", "i", "t">>,
         fmt |-> <<"U+1F4D8", " ", "H", "e", "r", "o", "'", "s", " ", "W", "i", "t">>],
        [key |-> <<"r", "e", "s", "i", "n">>,
         fmt |-> <<"U+1F333", " ", "F", "r", "a", "g", "i", "l", "e", " ", "R", "e", "s", "i", "n">>],
        [key |-> <<"r", "e", "c", "i", "p", "e">>,
         fmt |-> <<"U+1F4DC", " ", "R", "e", "c", "i", "p", "e">>],
        [key |-> <<"a", "r", "t", "i", "f", "a", "c", "t">>,
         fmt |-> <<"U+1F5FF", " ", "A", "r", "t", "i", "f", "a", "c", "t">>],
        [key |-> <<"r", "e", "l", "i", "c">>,
         fmt |-> <<"U+1F3FA", " ", "R", "e", "l", "i", "c">>],
        [key |-> <<"p", "l", "a", "n", "a", "r", "_", "o", "r", "n", "a", "m", "e", "n", "t">>,
         fmt |-> <<"U+1F31F", " ", "P", "l", "a", "n", "a", "r", " ", "O", "r", "n", "a", "m", "e", "n", "t">>],
        [key |-> <<"w", "_", "e", "n", "g", "i", "n", "e">>,
         fmt |-> <<"U+2699", "U+FE0F", " ", "W", "-", "E", "n", "g", "i", "n", "e">>],
        [key |-> <<"a", "d", "v", "e", "n", "t", "u", "r", "e", "_", "l", "o", "g">>,
         fmt |-> <<"U+1F4D6", " ", "A", "d", "v", "e", "n", "t", "u", "r", "e", " ", "L", "o", "g">>],
        [key |-> <<"c", "o", "n", "d", "e", "n", "s", "e", "d", "_", "a", "e", "t", "h", "e", "r">>,
         fmt |-> <<"U+1F30C", " ", "C", "o", "n", "d", "e", "n", "s", "e", "d", " ", "A", "e", "t", "h", "e", "r">>]
       >>
    @@ "zh-cn" :> <<
        [key |-> <<"m", "o", "r", "a">>,
         fmt |-> <<"U+1F4B0", " ", "U+6469", "U+62C9">>],
        [key |-> <<"p", "r", "i", "m", "o", "g", "e", "m">>,
         fmt |-> <<"U+1F48E", " ", "U+539F", "U+77F3">>],
        [key |-> <<"s", "t", "e", "l", "l", "a", "r", "_", "j", "a", "d", "e">>,
         fmt |-> <<"U+1F48E", " ", "U+661F", "U+7A79">>],
        [key |-> <<"p", "o", "l", "y", "c", "h", "r", "o", "m", "e">>,
         fmt |-> <<"U+1F308", " ", "U+591A", "U+8272">>],
        [key |-> <<"c", "r", "y", "s", "t", "a", "l">>,
         fmt |-> <<"U+1F48E", " ", "U+6C34", "U+6676">>],
        [key |-> <<"c", "r", "e", "d", "i", "t">>,
         fmt |-> <<"U+1F4B0", " ", "U+4FE1", "U+7528", "U+70B9">>],
        [key |-> <<"d", "e", "n", "n", "y">>,
         fmt |-> <<"U+1F4B0", " ", "U+4E39", "U+5C3C">>],
        [key |-> <<"e", "x", "p">>,
         fmt |-> <<"U+1F4DA", " ", "U+7ECF", "U+9A8C", "U+6750", "U+6599">>],
        [key |-> <<"e", "n", "h", "a", "n", "c", "e", "m", "e", "n", "t", "_", "o", "r", "e">>,
         fmt |-> <<"U+26A1", " ", "U+5F3A", "U+5316", "U+77FF", "U+77F3">>],
        [key |-> <<"m", "y", "s", "t", "i", "c", "_", "e", "n", "h", "a", "n", "c", "e", "m", "e", "n", "t", "_", "o", "r", "e">>,
         fmt |-> <<"U+2B50", " ", "U+7CBE", "U+70BC", "U+77FF", "U+77F3">>],
        [key |-> <<"h", "e", "r", "o", "_", "w", "i", "t">>,
         fmt |-> <<"U+1F4D8", " ", "U+82F1", "U+96C4", "U+667A", "U+6167">>],
        [key |-> <<"r", "e", "s", "i", "n">>,
         fmt |-> <<"U+1F333", " ", "U+8106", "U+5F31", "U+6811", "U+8102">>],
        [key |-> <<"r", "e", "c", "i", "p", "e">>,
         fmt |-> <<"U+1F4DC", " ", "U+914D", "U+65B9">>],
        [key |-> <<"a", "r", "t", "i", "f", "a", "c", "t">>,
         fmt |-> <<"U+1F5FF", " ", "U+5723", "U+9057", "U+7269">>],
        [key |-> <<"r", "e", "l", "i", "c">>,
         fmt |-> <<"U+1F3FA", " ", "U+9057", "U+5668">>],
        [key |-> <<"p", "l", "a", "n", "a", "r", "_", "o", "r", "n", "a", "m", "e", "n", "t">>,
         fmt |-> <<"U+1F31F", " ", "U+5E73", "U+9762", "U+9970", "U+54C1">>],
        [key |-> <<"w", "_", "e", "n", "g", "i", "n", "e">>,
         fmt |-> <<"U+2699", "U+FE0F", " ", "W", "U+5F15", "U+64CE">>],
        [key |-> <<"a", "d", "v", "e", "n", "t", "u", "r", "e", "_", "l", "o", "g">>,
         fmt |-> <<"U+1F4D6", " ", "U+5192", "U+9669", "U+65E5", "U+5FD7">>],
        [key |-> <<"c", "o", "n", "d", "e", "n", "s", "e", "d", "_", "a", "e", "t", "h", "e", "r">>,
         fmt |-> <<"U+1F30C", " ", "U+6D53", "U+7F29", "U+4EE5", "U+592A">>]
       >>

\* an award of the rewards list: the name member (a string, null, or not
\* there) and the cnt member (a number, or not there)
Award(kind, name, has_cnt, cnt) ==
    [name_kind |-> kind, name |-> name, has_cnt |-> has_cnt, cnt |-> cnt]

\* award.get("name", default)
GetName(award, default) ==
    IF award.name_kind = "absent" THEN default ELSE award.name

\* award.get("cnt", 1)
GetCount(award) == IF award.has_cnt THEN award.cnt ELSE 1

\* the generic label, f"\U0001F381 {name}"
GenericLabel(name) == <<"U+1F381", " ">> \o name

NotFormatted == [done |-> FALSE, raised |-> FALSE, label |-> <<>>, count |-> 0]
Formatted(label, count) ==
    [done |-> TRUE, raised |-> FALSE, label |-> label, count |-> count]
FormatRaised == [done |-> TRUE, raised |-> TRUE, label |-> <<>>, count |-> 0]

(* _format_reward_name, lines 130-136: the lower-cased name is searched    *)
(* for each key in turn and the first key found decides; None has no       *)
(* lower() and a language without a table has no REWARD_NAMES entry, both  *)
(* raise.                                                                  *)
FormatRewardName(award, lang) ==
    IF award.name_kind = "null" \/ lang \notin DOMAIN REWARD_NAMES
    THEN FormatRaised
    ELSE LET name  == Lower(GetName(award, <<"U", "n", "k", "n", "o", "w", "n">>))
             table == REWARD_NAMES[lang]
             found == {i \in DOMAIN table : Contains(table[i].key, name)}
             first == CHOOSE i \in found : \A j \in found : i <= j
         IN IF found # {}
            THEN Formatted(table[first].fmt, GetCount(award))
            ELSE Formatted(GenericLabel(GetName(award, <<"R", "e", "w", "a", "r", "d">>)),
                           GetCount(award))

\* the award and its formatting where they are not looked at
RewardIdle ==
    /\ award_payload = Award("absent", <<>>, FALSE, 0)
    /\ formatted = NotFormatted

-----------------------------------------------------------------------------
(* SpecExec: the executor of each game object, one attempt per step *)

Idle == [state |-> "idle", game |-> "gi", url |-> "", attempt |-> 0,
         result |-> None, sent |-> 0, transient |-> TRUE,
         adv_called |-> FALSE, adv_ret |-> FALSE, last |-> "none",
         last_retryable |-> FALSE]

\* no client operation has been called
CallIdle == [op |-> "none", ret |-> "none", notes |-> <<>>, help |-> FALSE,
             exec_notes |-> 0]

\* the client operations that issue a request
Ops == {"get_checkin_info", "perform_checkin", "get_today_reward"}

(* make_request lets no RequestException out: the except clause of line    *)
(* 152 catches every one raised by an attempt and returns or continues.    *)
MakeRequestRaises(resp) == FALSE

(* _retry_request, lines 87-99, for one call of make_request: the calls of *)
(* send_notification it makes - one in the except clause of its last       *)
(* iteration, none when make_request returns.                              *)
RetryRequestNotes(resp, attempt, n) ==
    IF MakeRequestRaises(resp) /\ ~(attempt < n - 1) THEN 1 ELSE 0

\* the members of a body that the operation reads besides the retcode
Payloads(op) ==
    CASE op = "get_checkin_info" -> [info : Infos, award : {FALSE}, readable : {FALSE}]
      [] op = "perform_checkin"  -> [info : {NoInfo}, award : BOOLEAN, readable : {FALSE}]
      [] OTHER                   -> [info : {NoInfo}, award : {FALSE}, readable : BOOLEAN]

\* what the operation does once _retry_request has returned `result`
Finish(op, result, lang, p) ==
    LET d == CASE op = "get_checkin_info" -> CheckinInfoOutcome(result, lang, p.info)
               [] op = "perform_checkin"  -> PerformCheckinOutcome(result, lang, p.award)
               [] OTHER                   -> RewardOutcome(result, p.readable)
    IN [ret |-> d.ret, notes |-> d.notes, help |-> d.help]

NoCycle == [caller |-> "none", todo |-> <<>>, success |-> TRUE,
            results |-> <<>>, ran |-> {}, raised |-> {}]
NoRun == [game |-> "none", ret |-> "none", ops |-> <<>>, first |-> "none",
          again |-> "none"]

\* the process before main() has run
ProcIdle ==
    /\ cookie_ok = Games
    /\ pc = "main"
    /\ clients = {}
    /\ cyc = NoCycle
    /\ last_run = NoRun
    /\ run_count = 0
    /\ last_success = TRUE
    /\ sleep_secs = 0
    /\ until_due = 0
    /\ last_sleep = 0
    /\ cycles = 0
    /\ exit_code = 0
    /\ stop_reason = "none"
    /\ stopped_at = "none"

ConfigsExec == {[DefaultConfig EXCEPT !.max_retries = n, !.language = l]
                  : n \in 1..MaxRetries, l \in LanguageChoices}

InitExec ==
    /\ config \in ConfigsExec
    /\ endpoint_index = [g \in Games |-> 0]
    /\ current_endpoint = [g \in Games |-> Primary(g)]
    /\ advances = [g \in Games |-> 0]
    /\ req = Idle
    /\ call = CallIdle
    /\ ProcIdle
    /\ SchedIdle
    /\ RewardIdle

\* mutant: the loop makes one iteration more
MoreAttemptsOffByOne(attempt, n) == attempt + 1 <= n

\* for attempt in range(max_attempts), line 123: is there an iteration after
\* the one numbered attempt
MoreAttempts(attempt, n) == attempt + 1 < n

(* make_request, lines 119-121: the URL is built once, from the endpoint   *)
(* current at the call; range(max_attempts) is empty for max_retries = 0.  *)
StartRequest(g) ==
    /\ req.state \in {"idle", "done"}
    /\ req' = [Idle EXCEPT !.state = IF config.max_retries > 0 THEN "running" ELSE "done",
                           !.game = g,
                           !.url = current_endpoint[g]]
    /\ \E op \in Ops :
          IF config.max_retries > 0
          THEN call' = [CallIdle EXCEPT !.op = op, !.ret = "running"]
          ELSE \E p \in Payloads(op) :
                  call' = [op |-> op, exec_notes |-> 0]
                          @@ Finish(op, None, config.language, p)
    /\ UNCHANGED <<config, schedVars, rewardVars, endpoint_index, current_endpoint, advances, procVars>>

(* One iteration of the for loop of make_request (lines 123-171) and, when *)
(* it was the last one, the exit of the loop (lines 173-177) and the rest  *)
(* of the client operation that had called _retry_request.                 *)
(* _retry_request (lines 85-99) returns what make_request returns in its   *)
(* first iteration: make_request catches every RequestException itself, so *)
(* the except clause of _retry_request never runs.                         *)
Attempt(resp) ==
    /\ req.state = "running"
    /\ LET g   == req.game
           out == AttemptStep(g, endpoint_index[g], current_endpoint[g], resp)
           more == MoreAttempts(req.attempt, config.max_retries)
       IN
       /\ endpoint_index' = [endpoint_index EXCEPT ![g] = out.idx]
       /\ current_endpoint' = [current_endpoint EXCEPT ![g] = out.cur]
       /\ advances' = [advances EXCEPT ![g] = @ + (IF out.adv_ret THEN 1 ELSE 0)]
       /\ req' = [req EXCEPT
                    !.state = IF out.returns \/ ~more THEN "done" ELSE "running",
                    !.result = out.result,
                    !.attempt = IF out.returns THEN @ ELSE @ + 1,
                    !.sent = @ + 1,
                    !.transient = @ /\ resp.kind \in TransientKinds,
                    !.adv_called = out.adv_called,
                    !.adv_ret = out.adv_ret,
                    !.last = resp.kind,
                    !.last_retryable = resp.kind = "json"
                                        /\ RetcodeOrDefault(resp) \in {-500001, -1, -10001}]
       /\ IF out.returns \/ ~more
          THEN \E p \in Payloads(call.op) :
                  call' = [op |-> call.op,
                           exec_notes |-> call.exec_notes
                               + RetryRequestNotes(resp, 0, config.max_retries)]
                          @@ Finish(call.op, out.result, config.language, p)
          ELSE call' = call
    /\ UNCHANGED <<config, schedVars, rewardVars, procVars>>

NextExec ==
    \/ \E g \in Games : StartRequest(g)
    \/ \E resp \in Responses : Attempt(resp)

SpecExec == InitExec /\ [][NextExec]_vars

-----------------------------------------------------------------------------
(* Spec: the process, from main() to its exit *)

Modes == {"daily", "interval", "once"}

\* the sets of enabled games explored: one game; the default pair
EnabledSets == {{"zzz"}, {"gi", "hsr"}}

\* the values of loop.max_runs explored (0 = unlimited)
RunLimits == 0..2

\* the configurations explored: with looping off the loop section is left
\* at its defaults
Configs ==
    LET Base == {[DefaultConfig EXCEPT !.enabled = e, !.show_detailed_rewards = s,
                                       !.language = l]
                   : e \in EnabledSets, s \in BOOLEAN, l \in LanguageChoices}
    IN {[c EXCEPT !.loop_enabled = FALSE] : c \in Base}
       \cup {[c EXCEPT !.mode = m, !.run_on_start = r, !.max_runs = k, !.retry_failed = f]
               : c \in Base, m \in Modes, r \in BOOLEAN, k \in RunLimits, f \in BOOLEAN}

Init ==
    /\ config \in Configs
    /\ endpoint_index = [g \in Games |-> 0]
    /\ current_endpoint = [g \in Games |-> Primary(g)]
    /\ advances = [g \in Games |-> 0]
    /\ req = Idle
    /\ call = CallIdle
    /\ \E missing \in {m \in SUBSET config.enabled : Cardinality(m) <= 1} :
          cookie_ok = Games \ missing
    /\ pc = "main"
    /\ clients = {}
    /\ cyc = NoCycle
    /\ last_run = NoRun
    /\ run_count = 0
    /\ last_success = TRUE
    /\ sleep_secs = 0
    /\ until_due = 0
    /\ last_sleep = 0
    /\ cycles = 0
    /\ exit_code = 0
    /\ stop_reason = "none"
    /\ stopped_at = "none"
    /\ SchedIdle
    /\ RewardIdle

\* mutant: the games in the order GameType declares them
OrderByDeclaration == <<"hsr", "gi", "zzz", "hi3">>

\* GameType values in ascending order: sorted(..., key=lambda x: x.value)
Order == <<"gi", "hi3", "hsr", "zzz">>
Sorted(S) == SelectSeq(Order, LAMBDA g : g \in S)

\* mutant: the comparison with max_runs is off by one
ShouldContinueLoopOffByOne(cfg, rc) ==
    cfg.loop_enabled /\ (cfg.max_runs = 0 \/ rc <= cfg.max_runs)

\* mutant: a cycle counts twice
IncrementRunCountTwice(rc) == rc + 2

\* ConfigManager.increment_run_count
IncrementRunCount(rc) == rc + 1

\* mutant: the startup cycle counts as a run too
RunCountAfterAnyCycle(caller, rc) == IncrementRunCount(rc)

\* run_count after a cycle: main (lines 104-106) leaves it alone,
\* start_loop (line 110) calls increment_run_count
RunCountAfter(caller, rc) ==
    IF caller = "main" THEN rc ELSE IncrementRunCount(rc)

\* ConfigManager.should_continue_loop
ShouldContinueLoop(cfg, rc) ==
    cfg.loop_enabled /\ (cfg.max_runs = 0 \/ rc < cfg.max_runs)

\* HoYoLabCore._load_cookies for every enabled game: does none raise
CookiesLoad(cfg, ok) == cfg.enabled \subseteq ok

\* sys.exit(code), or main() returning (code 0)
Exit(code, reason) ==
    /\ pc' = "exited"
    /\ exit_code' = code
    /\ stop_reason' = reason
    /\ stopped_at' = pc

\* run_checkins, lines 28-45: the locals before the first game
BeginCycle(caller, games) ==
    /\ pc' = "cycle"
    /\ cyc' = [caller |-> caller, todo |-> Sorted(games), success |-> TRUE,
               results |-> <<>>, ran |-> {}, raised |-> {}]
    /\ cycles' = cycles + 1

(* main(), lines 92-116, up to the call of run_checkins or start_loop:     *)
(* HoYoLab(config) builds one client per enabled game; an exception of any *)
(* constructor reaches main's except clause, which exits with status 1.    *)
Main ==
    /\ pc = "main"
    /\ IF ~CookiesLoad(config, cookie_ok)
       THEN /\ Exit(1, "fatal")
            /\ UNCHANGED <<clients, cyc, cycles>>
       ELSE /\ clients' = config.enabled
            /\ IF config.run_on_start \/ ~config.loop_enabled
               THEN /\ BeginCycle("main", config.enabled)
                    /\ UNCHANGED <<exit_code, stop_reason, stopped_at>>
               ELSE /\ pc' = "loop_top"
                    /\ UNCHANGED <<cyc, cycles, exit_code, stop_reason, stopped_at>>
    /\ last_success' = TRUE
    /\ UNCHANGED <<config, schedVars, rewardVars, execVars, cookie_ok, last_run, run_count,
                   sleep_secs, until_due, last_sleep>>

\* mutant: the exception ends the for loop
OnGameExceptionAbort == "abort"

\* what run_checkins does with an exception of a game's run(): "continue"
\* records the failure and goes on (lines 59-64)
OnGameException == "continue"

\* mutant: the latest game's result replaces the aggregate
AggregateSuccessLatest(success, ret) == ret = "true"

\* run_checkins' success after a game: success &= result (line 53) when
\* run() returned, success = False (line 62) when it raised
AggregateSuccess(success, ret) ==
    IF ret = "raised" THEN FALSE ELSE success /\ (ret = "true")

(* run_checkins, lines 46-64: one game - the inter-game delay, run(), and  *)
(* the entry of the summary, from the try or from the except clause.       *)
RunGame ==
    /\ pc = "cycle"
    /\ cyc.todo # <<>>
    /\ LET g == Head(cyc.todo) IN
       \E o \in RunTable[g][endpoint_index[g]][current_endpoint[g]]
                        [config.show_detailed_rewards][config.language]
                        [config.max_retries] :
          LET result == (o.ret = "true")
              abort  == o.ret = "raised" /\ OnGameException # "continue"
          IN
          /\ endpoint_index' = [endpoint_index EXCEPT ![g] = o.idx]
          /\ current_endpoint' = [current_endpoint EXCEPT ![g] = o.cur]
          /\ last_run' = [game |-> g, ret |-> o.ret, ops |-> o.ops, first |-> o.first,
                           again |-> o.again]
          /\ cyc' = [cyc EXCEPT
                       !.todo = IF abort THEN <<>> ELSE Tail(@),
                       !.success = AggregateSuccess(@, o.ret),
                       !.results = IF abort THEN @
                                   ELSE [x \in DOMAIN @ \cup {g} |->
                                           IF x = g THEN result ELSE @[x]],
                       !.ran = @ \cup {g},
                       !.raised = IF o.ret = "raised" THEN @ \cup {g} ELSE @]
          /\ last_sleep' = IF cyc.ran # {} /\ config.delay_between_games > 0
                           THEN config.delay_between_games ELSE last_sleep
    /\ UNCHANGED <<config, schedVars, rewardVars, advances, req, call, cookie_ok, pc, clients, run_count,
                   last_success, sleep_secs, until_due, cycles, exit_code, stop_reason, stopped_at>>

(* The end of run_checkins (lines 66-68) and what its caller does with the *)
(* result: main, lines 104-109; start_loop, lines 108-134.                 *)
EndCycle ==
    /\ pc = "cycle"
    /\ cyc.todo = <<>>
    /\ last_success' = cyc.success
    /\ IF cyc.caller = "main"
       THEN /\ IF ~config.loop_enabled
               THEN Exit(IF cyc.success THEN 0 ELSE 1, "single_run")
               ELSE pc' = "loop_top" /\ UNCHANGED <<exit_code, stop_reason, stopped_at>>
       ELSE /\ IF ~ShouldContinueLoop(config, IncrementRunCount(run_count))
               THEN Exit(0, "max_runs")
               ELSE /\ pc' = IF ~cyc.success /\ config.retry_failed
                             THEN "retry_sleep" ELSE "loop_top"
                    /\ UNCHANGED <<exit_code, stop_reason, stopped_at>>
    /\ run_count' = RunCountAfter(cyc.caller, run_count)
    /\ cyc' = NoCycle
    /\ last_run' = NoRun
    /\ UNCHANGED <<config, schedVars, rewardVars, execVars, cookie_ok, clients,
                   sleep_secs, until_due, last_sleep, cycles>>

(* get_next_run_time seen from start_loop line 82: the seconds from now to *)
(* next_run. Daily mode gives an instant strictly after now; the other     *)
(* modes give now + interval_hours. Waits longer than MaxWait are cut.     *)
NextRunDelays(mode) == IF mode = "daily" THEN 1..MaxWait ELSE 0..MaxWait

(* start_loop, lines 78-84: the while condition, next_run and sleep_secs;  *)
(* when the condition fails start_loop and main return.                    *)
LoopTop ==
    /\ pc = "loop_top"
    /\ IF ~ShouldContinueLoop(config, run_count)
       THEN /\ Exit(0, "max_runs")
            /\ UNCHANGED <<sleep_secs, until_due>>
       ELSE /\ \E w \in NextRunDelays(config.mode) :
                  sleep_secs' = w /\ until_due' = w
            /\ pc' = "loop_wait"
            /\ UNCHANGED <<exit_code, stop_reason, stopped_at>>
    /\ UNCHANGED <<config, schedVars, rewardVars, execVars, cookie_ok, clients, cyc, last_run,
                   run_count, last_success, last_sleep, cycles>>

\* the polling interval of the wait: time.sleep(1), line 106
PollSeconds == 1

\* mutant: the wait ends one second before next_run
WaitOverEarly(secs) == ~(secs > 1)

\* the wait for next_run is over: the conditions of lines 84 and 86,
\* sleep_secs > 0, are false
WaitOver(secs) == ~(secs > 0)

(* start_loop, lines 86-106: one iteration of the wait - sleep_secs is     *)
(* recomputed from the clock, the panel is shown, the loop sleeps 1 s.     *)
WaitPoll ==
    /\ pc = "loop_wait"
    /\ ~WaitOver(sleep_secs)
    /\ sleep_secs' = until_due
    /\ until_due' = until_due - PollSeconds
    /\ last_sleep' = PollSeconds
    /\ UNCHANGED <<config, schedVars, rewardVars, execVars, cookie_ok, pc, clients, cyc, last_run,
                   run_count, last_success, cycles, exit_code, stop_reason, stopped_at>>

\* start_loop, line 108: the wait is over, run_checkins is called
LoopRunCycle ==
    /\ pc = "loop_wait"
    /\ WaitOver(sleep_secs)
    /\ cycles < MaxCycles
    /\ BeginCycle("loop", clients)
    /\ UNCHANGED <<config, schedVars, rewardVars, execVars, cookie_ok, clients, last_run, run_count,
                   last_success, sleep_secs, until_due, last_sleep,
                   exit_code, stop_reason, stopped_at>>

\* mutant: the exception leaves start_loop and ends the process
LoopExceptionPropagates == [pc |-> "exited", reason |-> "error"]

\* where an exception of a loop iteration leaves the process: the except
\* Exception clause of start_loop (lines 147-156)
LoopExceptionHandler == [pc |-> "cooldown", reason |-> "none"]

\* the cooldown of the except Exception clause: time.sleep(60), line 156
CooldownSeconds == 60

(* An exception raised inside the try of start_loop while the loop waits   *)
(* (by the live display or the console).                                   *)
LoopError ==
    /\ pc = "loop_wait"
    /\ pc' = LoopExceptionHandler.pc
    /\ stop_reason' = IF LoopExceptionHandler.pc = "exited"
                      THEN LoopExceptionHandler.reason ELSE stop_reason
    /\ exit_code' = IF LoopExceptionHandler.pc = "exited" THEN 1 ELSE exit_code
    /\ stopped_at' = IF LoopExceptionHandler.pc = "exited" THEN pc ELSE stopped_at
    /\ UNCHANGED <<config, schedVars, rewardVars, execVars, cookie_ok, clients, cyc, last_run, run_count,
                   last_success, sleep_secs, until_due, last_sleep, cycles>>

\* start_loop, line 156, and back to the while condition
Cooldown ==
    /\ pc = "cooldown"
    /\ last_sleep' = CooldownSeconds
    /\ pc' = "loop_top"
    /\ UNCHANGED <<config, schedVars, rewardVars, execVars, cookie_ok, clients, cyc, last_run, run_count,
                   last_success, sleep_secs, until_due, cycles, exit_code, stop_reason, stopped_at>>

\* mutant: after the retry sleep the cycle is run again at once, the wait
\* already served standing for the new one
AfterRetrySleepRerun == "loop_wait"

\* where the continue of line 134 takes start_loop: the while condition
AfterRetrySleep == "loop_top"

\* start_loop, lines 123-134: time.sleep(retry_delay_minutes * 60); continue
RetrySleep ==
    /\ pc = "retry_sleep"
    /\ last_sleep' = config.retry_delay_minutes * 60
    /\ pc' = AfterRetrySleep
    /\ UNCHANGED <<config, schedVars, rewardVars, execVars, cookie_ok, clients, cyc, last_run, run_count,
                   last_success, sleep_secs, until_due, cycles, exit_code, stop_reason, stopped_at>>

\* mutant: the handler returns without sys.exit
ShutdownReturns(at) == at

\* where handle_shutdown leaves the process: sys.exit(0), line 81
ShutdownPc(at) == "exited"

(* SIGINT or SIGTERM: handle_shutdown (main.py lines 73-81) runs in the    *)
(* main thread, interrupting a time.sleep in progress, and raises          *)
(* SystemExit, which no except clause of start_loop or main catches.       *)
HandleShutdown ==
    /\ pc # "exited"
    /\ pc' = ShutdownPc(pc)
    /\ exit_code' = 0
    /\ stop_reason' = "cancel"
    /\ stopped_at' = pc
    /\ UNCHANGED <<config, schedVars, rewardVars, execVars, cookie_ok, clients, cyc, last_run, run_count,
                   last_success, sleep_secs, until_due, last_sleep, cycles>>

Next ==
    \/ Main
    \/ RunGame
    \/ EndCycle
    \/ LoopTop
    \/ WaitPoll
    \/ LoopRunCycle
    \/ LoopError
    \/ Cooldown
    \/ RetrySleep
    \/ HandleShutdown

Spec == Init /\ [][Next]_vars

(* SpecLive: the process with the progress of start_loop's wait: a         *)
(* time.sleep(1) returns and the statements after it run, so an iteration  *)
(* of the wait that can be made is made, and so is the call of             *)
(* run_checkins once the wait is over.                                     *)
\* the configurations SpecLive explores: looping on, every mode, run limit
\* and retry setting, with the settings the wait does not read left fixed
ConfigsLive ==
    {c \in Configs : /\ c.loop_enabled
                     /\ c.enabled = {"zzz"}
                     /\ ~c.show_detailed_rewards}

InitLive == Init /\ config \in ConfigsLive

SpecLive == InitLive /\ [][Next]_vars /\ WF_vars(WaitPoll) /\ WF_vars(LoopRunCycle)

-----------------------------------------------------------------------------
(* SpecSched: get_next_run_time under a clock that moves forward *)

\* the values of loop.daily_time explored, each with the hour and minute it
\* stands for; _validate_config lets no other form through
DailyTimes ==
    { [text |-> <<"0", "9", ":", "0", "0">>, hour |-> 9, minute |-> 0],
      [text |-> <<"0", "0", ":", "0", "0">>, hour |-> 0, minute |-> 0],
      [text |-> <<"2", "3", ":", "5", "9">>, hour |-> 23, minute |-> 59],
      [text |-> <<"8", ":", "1">>, hour |-> 8, minute |-> 1] }

\* the values of loop.interval_hours explored
IntervalHours == {1, 24}

\* the instants the clock is read at
SampleDays == {0, 1}
SampleHours == {0, 8, 9, 23}
SampleMinutes == {0, 1, 59}
SampleSeconds == {0, 59}
SampleMicroseconds == {0, 999999}

Instants ==
    { DateTime(d, h, m, sec, us) :
        d \in SampleDays, h \in SampleHours, m \in SampleMinutes,
        sec \in SampleSeconds, us \in SampleMicroseconds }

ConfigsSched ==
    {[DefaultConfig EXCEPT !.daily_time = d.text] : d \in DailyTimes}
    \cup {[DefaultConfig EXCEPT !.mode = m, !.interval_hours = k]
            : m \in {"interval", "once"}, k \in IntervalHours}

InitSched ==
    /\ config \in ConfigsSched
    /\ endpoint_index = [g \in Games |-> 0]
    /\ current_endpoint = [g \in Games |-> Primary(g)]
    /\ advances = [g \in Games |-> 0]
    /\ req = Idle
    /\ call = CallIdle
    /\ ProcIdle
    /\ now \in Instants
    /\ next_run = NoCall
    /\ RewardIdle

\* time passes
ClockAdvance ==
    /\ \E t \in Instants : Before(now, t) /\ now' = t
    /\ UNCHANGED <<config, execVars, procVars, rewardVars, next_run>>

\* a call of get_next_run_time (start_loop line 81, print_header line 60)
CallGetNextRunTime ==
    /\ next_run' = [at |-> now, called |-> TRUE, value |-> GetNextRunTime(config, now)]
    /\ UNCHANGED <<config, execVars, procVars, rewardVars, now>>

NextSched ==
    \/ ClockAdvance
    \/ CallGetNextRunTime

SpecSched == InitSched /\ [][NextSched]_vars

-----------------------------------------------------------------------------
(* SpecReward: _format_reward_name applied to award payloads *)

\* "Primogem" in every letter case
PrimogemSpellings ==
    LET lower == <<"p", "r", "i", "m", "o", "g", "e", "m">>
        upper == <<"P", "R", "I", "M", "O", "G", "E", "M">>
    IN {[i \in 1..8 |-> IF i \in caps THEN upper[i] ELSE lower[i]]
          : caps \in SUBSET (1..8)}

\* the other names explored: names with one key, with two, with a key's
\* words but not its underscore, with no key, and the empty name
OtherNames ==
    {<<"M", "o", "r", "a">>,
     <<"M", "o", "r", "a", " ", "a", "n", "d", " ", "P", "r", "i", "m", "o", "g", "e", "m">>,
     <<"P", "r", "i", "m", "o", "g", "e", "m", "s">>,
     <<"P", "r", "i", "m", "0", "g", "e", "m">>,
     <<"S", "t", "e", "l", "l", "a", "r", " ", "J", "a", "d", "e">>,
     <<"H", "e", "r", "o", "'", "s", " ", "W", "i", "t">>,
     <<"A", "d", "v", "e", "n", "t", "u", "r", "e", "r", "'", "s", " ",
       "E", "x", "p", "e", "r", "i", "e", "n", "c", "e">>,
     <<"M", "y", "s", "t", "i", "c", "_", "E", "n", "h", "a", "n", "c", "e", "m", "e", "n", "t",
       "_", "O", "r", "e">>,
     <<>>}

\* the cnt values explored
CountChoices == {1, 5, 20000}

\* the award payloads explored
Awards ==
    {Award("str", n, TRUE, c) : n \in PrimogemSpellings \cup OtherNames, c \in CountChoices}
    \cup {Award("str", n, FALSE, 0) : n \in PrimogemSpellings \cup OtherNames}
    \cup {Award(k, <<>>, TRUE, c) : k \in {"absent", "null"}, c \in CountChoices}
    \cup {Award(k, <<>>, FALSE, 0) : k \in {"absent", "null"}}

\* the values of settings.language explored: the two with a table and one
\* without
RewardLanguages == {"en-us", "zh-cn", "ja-jp"}

ConfigsReward == {[DefaultConfig EXCEPT !.language = l] : l \in RewardLanguages}

InitReward ==
    /\ config \in ConfigsReward
    /\ endpoint_index = [g \in Games |-> 0]
    /\ current_endpoint = [g \in Games |-> Primary(g)]
    /\ advances = [g \in Games |-> 0]
    /\ req = Idle
    /\ call = CallIdle
    /\ ProcIdle
    /\ SchedIdle
    /\ award_payload \in Awards
    /\ formatted = NotFormatted

\* a call of _format_reward_name (get_today_reward line 120, get_next_reward
\* line 128)
CallFormatRewardName ==
    /\ ~formatted.done
    /\ formatted' = FormatRewardName(award_payload, config.language)
    /\ UNCHANGED <<config, execVars, procVars, schedVars, award_payload>>

\* the API returns another award
NextAward ==
    /\ formatted.done
    /\ award_payload' \in Awards
    /\ formatted' = NotFormatted
    /\ UNCHANGED <<config, execVars, procVars, schedVars>>

NextReward ==
    \/ CallFormatRewardName
    \/ NextAward

SpecReward == InitReward /\ [][NextReward]_vars

\* the hour and minute loop.daily_time stands for
Configured == CHOOSE d \in DailyTimes : d.text = config.daily_time

(* C13: in daily mode get_next_run_time returns the configured             *)
(* hour:minute, seconds and microseconds zero, of the current day when     *)
(* that instant is after now and of the following day otherwise; the       *)
(* result is strictly after now and no more than 24 hours after it.        *)
C13_DailyRollover ==
    (next_run.called /\ config.mode = "daily") =>
        LET t      == next_run.at
            today  == DateTime(t.day, Configured.hour, Configured.minute, 0, 0)
        IN
        /\ next_run.value = IF Before(t, today) THEN today ELSE AddDays(today, 1)
        /\ Before(t, next_run.value)
        /\ NotAfter(next_run.value, AddDays(t, 1))

\* daily_time 09:00: called at 09:01 the result is 09:00 of the next day
C13_Witness ==
    /\ config.mode = "daily" /\ config.daily_time = <<"0", "9", ":", "0", "0">>
    /\ next_run.called
    /\ next_run.at = DateTime(0, 9, 1, 0, 0)
    /\ next_run.value = DateTime(1, 9, 0, 0, 0)

-----------------------------------------------------------------------------
(* C1: a logical request whose every response was a transient failure      *)
(* (timeout, connection reset, 5xx, 429) ends with None after exactly      *)
(* max_retries HTTP attempts.                                              *)
C1_RetryBound ==
    (req.state = "done" /\ req.sent > 0 /\ req.transient) =>
        (req.result = None /\ req.sent = config.max_retries)

-----------------------------------------------------------------------------
(* Claims about the process (Spec) *)

Range(q) == {q[i] : i \in 1..Len(q)}

\* the process is inside start_loop
InLoop ==
    \/ pc \in {"loop_top", "loop_wait", "retry_sleep", "cooldown"}
    \/ pc = "cycle" /\ cyc.caller = "loop"

(* C2: in run_checkins a game whose run() raised is recorded as failed,    *)
(* every game before the position of the for loop has been run, whatever   *)
(* the earlier games did, and when the loop is over the summary has an     *)
(* entry for every enabled game.                                           *)
C2_CycleIsolation ==
    pc = "cycle" =>
        /\ cyc.ran = clients \ Range(cyc.todo)
        /\ DOMAIN cyc.results = cyc.ran
        /\ \A g \in cyc.raised : ~cyc.results[g] /\ ~cyc.success
        /\ cyc.todo = <<>> => DOMAIN cyc.results = config.enabled

C2_Witness ==
    /\ pc = "cycle" /\ cyc.todo = <<>>
    /\ "gi" \in cyc.raised
    /\ "hsr" \in DOMAIN cyc.results /\ last_run.game = "hsr"

(* C3: a game whose cookies are missing is the only one skipped: every     *)
(* other enabled game gets its client, and unless the process is cancelled *)
(* it does not end before a cycle has run them.                            *)
C3_CredentialIsolation ==
    /\ (pc # "main" /\ stop_reason # "cancel")
          => (config.enabled \cap cookie_ok) \subseteq clients
    /\ (pc = "exited" /\ stop_reason # "cancel" /\ config.enabled \cap cookie_ok # {})
          => cycles > 0

(* C4: when the first status fetch of run() reports is_sign = true, run()  *)
(* makes no call of perform_checkin and returns True.                      *)
C4_AlreadyDone ==
    last_run.first = "signed" =>
        /\ "sign" \notin Range(last_run.ops)
        /\ last_run.ret = "true"

(* C5: with max_runs = N > 0 no cycle of the loop runs while run_count >=  *)
(* N and the process has left the loop as soon as run_count reaches N;     *)
(* with max_runs = 0 the loop never ends because of the run count.         *)
C5_MaxRuns ==
    /\ (config.max_runs > 0 /\ pc = "cycle" /\ cyc.caller = "loop")
          => run_count < config.max_runs
    /\ (config.max_runs > 0 /\ run_count >= config.max_runs)
          => pc = "exited" /\ run_count = config.max_runs
    /\ stop_reason = "max_runs"
          => config.max_runs > 0 /\ run_count = config.max_runs

C5_Witness ==
    pc = "exited" /\ stop_reason = "max_runs" /\ run_count = 2

(* C6: an exception of a loop iteration takes the loop to the cooldown,    *)
(* the cooldown sleeps 60 seconds and goes back to the while condition,    *)
(* and the loop is left only by cancellation or by max_runs.               *)
C6_LoopResilience ==
    [][/\ (pc = "loop_wait" /\ pc' \notin {"loop_wait", "cycle"} /\ stop_reason' # "cancel")
            => pc' = "cooldown"
       /\ (pc = "cooldown" /\ stop_reason' # "cancel")
            => pc' = "loop_top" /\ last_sleep' = CooldownSeconds
       /\ (InLoop /\ pc' = "exited")
            => stop_reason' \in {"cancel", "max_runs"}]_vars

C6_Witness ==
    pc = "loop_wait" /\ last_sleep = CooldownSeconds /\ stop_reason = "none"

(* C7: a cancellation that arrives while the loop waits for next_run ends  *)
(* the process at once - no further sleep is made, the remaining wait is   *)
(* not served - and after a cancellation no cycle is started.              *)
C7_CancelDuringWait ==
    [][/\ (pc = "loop_wait" /\ stop_reason = "none" /\ stop_reason' = "cancel")
            => /\ pc' = "exited"
               /\ cycles' = cycles
               /\ until_due' = until_due
               /\ last_sleep' = last_sleep
       /\ stop_reason = "cancel" => (pc' = pc /\ cycles' = cycles)]_vars

C7_Witness ==
    /\ pc = "exited" /\ stop_reason = "cancel"
    /\ stopped_at = "loop_wait" /\ until_due > 0

(* C8: with looping disabled the process runs exactly one cycle and exits  *)
(* with 0 when every game succeeded and 1 otherwise; with looping enabled  *)
(* it enters the loop instead of exiting after the cycle.                  *)
C8_EntryPoint ==
    /\ (pc = "exited" /\ ~config.loop_enabled /\ stop_reason # "cancel")
          => /\ cycles = 1
             /\ exit_code = IF last_success THEN 0 ELSE 1
    /\ (pc = "exited" /\ config.loop_enabled /\ cycles > 0 /\ stop_reason # "cancel")
          => stop_reason = "max_runs"

(* C9: with loop mode "once" the process runs at most one cycle and the    *)
(* scheduler loop runs no scheduled cycle.                                 *)
C9_ModeOnce ==
    config.mode = "once" =>
        /\ cycles <= 1
        /\ ~(pc = "cycle" /\ cyc.caller = "loop")

(* C10: once a game object has made as many successful advances as its     *)
(* fallback list is long, a further _try_next_endpoint returns False and   *)
(* leaves current_endpoint and endpoint_index as they were.                *)
C10_FallbackExhaustion ==
    [][\A g \in Games :
        (advances[g] = Len(Fallback(g)) /\ req'.game = g /\ req'.adv_called) =>
            /\ ~req'.adv_ret
            /\ endpoint_index'[g] = endpoint_index[g]
            /\ current_endpoint'[g] = current_endpoint[g]]_vars

C10_Witness ==
    \E g \in Games :
        /\ advances[g] = Len(Fallback(g))
        /\ req.game = g /\ req.adv_called /\ ~req.adv_ret

(* C11: for every game object, 0 <= endpoint_index <= length of the game's  *)
(* fallback list, and current_endpoint is the primary URL when             *)
(* endpoint_index = 0 and the fallback entry number endpoint_index (the    *)
(* source's position endpoint_index - 1) otherwise.                        *)
C11_EndpointCursor ==
    \A g \in Games :
        /\ endpoint_index[g] \in 0..Len(Fallback(g))
        /\ current_endpoint[g] = IF endpoint_index[g] = 0 THEN Primary(g)
                                 ELSE Fallback(g)[endpoint_index[g]]

C11_Witness ==
    /\ endpoint_index["hi3"] = Len(Fallback("hi3"))
    /\ current_endpoint["hi3"] = "https://sg-hk4e-api.hoyolab.com"
    /\ req.game = "hi3" /\ req.state = "done" /\ req.adv_called /\ ~req.adv_ret

\* the step ends a cycle of the scheduler loop: run_checkins returns to
\* start_loop
LoopCycleEnds ==
    pc = "cycle" /\ cyc.caller = "loop" /\ pc' # "cycle" /\ stop_reason' # "cancel"

(* C14: the step in which a cycle of the scheduler loop ends adds exactly   *)
(* one to run_count, also when the cycle failed and the loop goes to the   *)
(* retry sleep; no other step - the retry sleep in particular - changes    *)
(* run_count, so it never decreases.                                       *)
C14_RunCounting ==
    [][/\ LoopCycleEnds => run_count' = run_count + 1
       /\ ~LoopCycleEnds => run_count' = run_count
       /\ pc = "retry_sleep" => run_count' = run_count]_vars

C14_Witness ==
    /\ pc = "loop_top" /\ last_sleep = config.retry_delay_minutes * 60
    /\ ~last_success /\ run_count = 1 /\ cycles = 1

\* the logical AND of the entries of a summary
AllTrue(results) == \A g \in DOMAIN results : results[g]

(* C15: while run_checkins runs, its success is the AND of the outcomes    *)
(* recorded so far, where a game that raised is recorded as False; when it *)
(* returns, the summary has every client's entry and last_success is the   *)
(* AND of them.                                                            *)
C15_AggregateResult ==
    [][/\ pc' = "cycle" =>
            /\ cyc'.success = AllTrue(cyc'.results)
            /\ \A g \in cyc'.raised : ~cyc'.results[g]
       /\ (pc = "cycle" /\ pc' # "cycle" /\ stop_reason' # "cancel") =>
            /\ DOMAIN cyc.results = clients
            /\ last_success' = AllTrue(cyc.results)]_vars

C15_Witness ==
    /\ pc = "cycle" /\ cyc.todo = <<>>
    /\ DOMAIN cyc.results = {"gi", "hsr"}
    /\ ~cyc.results["gi"] /\ cyc.results["hsr"]
    /\ ~cyc.success

(* C20: when perform_checkin returned True and the status re-fetch that    *)
(* follows it fails (it returns None or raises), run() goes on with the    *)
(* status of the first fetch and returns True.                             *)
C20_BestEffortReverification ==
    last_run.again \in {"kept", "raised"} =>
        /\ last_run.ops[2] = "sign"
        /\ Len(last_run.ops) > 3
        /\ last_run.ret = "true"

\* the place of a game's short code in ascending lexical order
LexicalRank(g) ==
    CASE g = "gi" -> 1 [] g = "hi3" -> 2 [] g = "hsr" -> 3 [] g = "zzz" -> 4

(* C28: each step of run_checkins runs one game that has not been run in   *)
(* the cycle; every game run before it has a smaller short code and every  *)
(* game still to run a larger one; the inter-game delay is slept before    *)
(* it unless it is the first game of the cycle.                            *)
C28_OrderAndPacing ==
    [][(pc = "cycle" /\ pc' = "cycle" /\ cyc' # cyc) =>
          LET g == last_run'.game IN
          /\ g \in clients \ cyc.ran
          /\ cyc'.ran = cyc.ran \cup {g}
          /\ \A h \in cyc.ran : LexicalRank(h) < LexicalRank(g)
          /\ \A h \in clients \ cyc'.ran : LexicalRank(g) < LexicalRank(h)
          /\ last_sleep' = IF cyc.ran = {} THEN last_sleep
                           ELSE config.delay_between_games]_vars

C28_Witness ==
    /\ pc = "cycle" /\ cyc.ran = {"gi", "hsr"} /\ last_run.game = "hsr"
    /\ last_sleep = config.delay_between_games

\* two characters that differ at most in letter case
SameLetter(a, b) ==
    a = b \/ \E i \in DOMAIN Lowercase : {a, b} = {Lowercase[i], Uppercase[i]}

\* key occurs in name when letter case is ignored
OccursIgnoringCase(key, name) ==
    \E i \in 0..(Len(name) - Len(key)) :
        \A j \in 1..Len(key) : SameLetter(name[i + j], key[j])

\* the count of the award payload
PayloadCount == IF award_payload.has_cnt THEN award_payload.cnt ELSE 1

(* C23: _format_reward_name matches the award name case-insensitively      *)
(* against the keys of the language's table: "Primogem" in any letter case *)
(* under "en-us" gives the gem-stone label "Primogem" with the payload     *)
(* count; a name in which no key occurs gives the generic label built from *)
(* the raw name, with the raw count.                                       *)
C23_RewardNameResolution ==
    (formatted.done /\ award_payload.name_kind = "str"
                    /\ config.language \in DOMAIN REWARD_NAMES) =>
        /\ ~formatted.raised
        /\ formatted.count = PayloadCount
        /\ (config.language = "en-us" /\ award_payload.name \in PrimogemSpellings)
              => formatted.label = <<"U+1F48E", " ", "P", "r", "i", "m", "o", "g", "e", "m">>
        /\ (\A i \in DOMAIN REWARD_NAMES[config.language] :
                ~OccursIgnoringCase(REWARD_NAMES[config.language][i].key, award_payload.name))
              => formatted.label = <<"U+1F381", " ">> \o award_payload.name
        /\ \A i \in DOMAIN REWARD_NAMES[config.language] :
              formatted.label = REWARD_NAMES[config.language][i].fmt
                 => OccursIgnoringCase(REWARD_NAMES[config.language][i].key, award_payload.name)

C23_Witness ==
    /\ formatted.done /\ config.language = "en-us"
    /\ award_payload.name = <<"p", "R", "I", "m", "o", "G", "e", "M">>
    /\ award_payload.has_cnt /\ award_payload.cnt = 20000
    /\ formatted.label = <<"U+1F48E", " ", "P", "r", "i", "m", "o", "g", "e", "m">>
    /\ formatted.count = 20000

\* the seconds of the retry sleep
RetryDelaySeconds == config.retry_delay_minutes * 60

(* C31: after a failed cycle of the loop with retry_failed set (and the    *)
(* run limit not reached) the loop sleeps the retry delay, goes back to    *)
(* the while condition, computes next_run anew and waits for it; no cycle  *)
(* starts in between: a cycle of the loop starts only from the wait, once  *)
(* the next_run computed at the top of the iteration has come.             *)
C31_RetryPostpones ==
    [][/\ (pc = "cycle" /\ pc' \notin {"cycle", "exited"} /\ cyc.caller = "loop"
                        /\ ~cyc.success /\ config.retry_failed)
            => pc' = "retry_sleep" /\ cycles' = cycles
       /\ (pc = "retry_sleep" /\ pc' # "exited")
            => /\ pc' = "loop_top"
               /\ last_sleep' = RetryDelaySeconds
               /\ cycles' = cycles
       /\ (pc = "loop_top" /\ pc' # "exited")
            => /\ pc' = "loop_wait"
               /\ sleep_secs' \in NextRunDelays(config.mode)
               /\ until_due' = sleep_secs'
               /\ cycles' = cycles
       /\ (cycles' # cycles /\ pc # "main")
            => /\ pc = "loop_wait"
               /\ sleep_secs <= 0
               /\ until_due <= 0]_vars

\* the loop waits for the next_run computed after a retry sleep
C31_Witness ==
    /\ pc = "loop_wait" /\ ~last_success /\ config.retry_failed
    /\ last_sleep = RetryDelaySeconds
    /\ sleep_secs > 0 /\ until_due = sleep_secs

(* C32: every cycle started by the scheduler loop starts at or after the  *)
(* next_run computed at the top of that loop iteration, which the wait     *)
(* leaves as it is; and unless a cancellation or an exception ends it,     *)
(* every wait ends with a cycle being run (for the cycles explored).       *)
C32_NoEarlyCycle ==
    /\ [][/\ (cycles' # cycles /\ cyc'.caller = "loop")
                 => pc = "loop_wait" /\ until_due <= 0
          /\ (pc = "loop_wait" /\ pc' = "loop_wait")
                 => until_due' = until_due - PollSeconds]_vars
    /\ (pc = "loop_wait" /\ cycles < MaxCycles)
          ~> (pc = "cycle" \/ pc = "cooldown" \/ stop_reason = "cancel")

\* a cycle of the loop has just started, after a wait that was served
C32_Witness ==
    /\ pc = "cycle" /\ cyc.caller = "loop" /\ cyc.ran = {}
    /\ last_sleep = PollSeconds
    /\ sleep_secs <= 0 /\ until_due < 0

(* C33: for each game endpoint_index never decreases and, once the game   *)
(* has advanced, current_endpoint is never the primary URL again; the      *)
(* state changes only in a run() of that game, so it is kept from request  *)
(* to request, over the end of a cycle and the waits of the loop into the  *)
(* later cycles, and a game's advances leave the other games' state alone. *)
C33_EndpointNeverReset ==
    [][\A g \in Games :
         /\ endpoint_index'[g] >= endpoint_index[g]
         /\ endpoint_index[g] > 0 =>
               /\ current_endpoint[g] # Primary(g)
               /\ current_endpoint'[g] # Primary(g)
         /\ (endpoint_index'[g] # endpoint_index[g]
                \/ current_endpoint'[g] # current_endpoint[g])
               => /\ pc = "cycle" /\ pc' = "cycle"
                  /\ last_run'.game = g
                  /\ g \in cyc'.ran \ cyc.ran]_vars

\* the second cycle: gi used up its fallbacks in the first and still has
\* none, hsr has just run and is at its primary
C33_Witness ==
    /\ pc = "cycle" /\ cycles = 2 /\ cyc.ran = {"gi", "hsr"}
    /\ endpoint_index["gi"] = Len(Fallback("gi"))
    /\ current_endpoint["gi"] = Fallback("gi")[Len(Fallback("gi"))]
    /\ endpoint_index["hsr"] = 0
    /\ current_endpoint["hsr"] = Primary("hsr")

(* C30: the cycle that main runs at startup does not increment run_count: *)
(* with looping enabled, run_on_start true and max_runs = N > 0 a process  *)
(* that ends by max_runs has performed N + 1 cycles and run_count is N;    *)
(* the startup cycle itself leaves run_count as it was.                    *)
C30_StartupCycleUncounted ==
    /\ (pc = "cycle" /\ cyc.caller = "main") => run_count = 0
    /\ (pc = "loop_top" /\ cycles = 1 /\ config.run_on_start) => run_count = 0
    /\ (stop_reason = "max_runs" /\ config.loop_enabled /\ config.run_on_start
                                /\ config.max_runs > 0)
          => /\ cycles = config.max_runs + 1
             /\ run_count = config.max_runs

C30_Witness ==
    /\ pc = "exited" /\ stop_reason = "max_runs"
    /\ config.loop_enabled /\ config.run_on_start
    /\ config.max_runs = 2 /\ cycles = 3 /\ run_count = 2

\* the positions of run()'s calls of perform_checkin
SignCalls(ops) == {i \in DOMAIN ops : ops[i] = "sign"}

(* C29: perform_checkin is invoked at most once per run() and only after a *)
(* status fetch that succeeded and reported is_sign = false; when the      *)
(* status fetch fails, run() returns false without any sign request.       *)
C29_CheckinOrdering ==
    last_run.game # "none" =>
        /\ Cardinality(SignCalls(last_run.ops)) <= 1
        /\ SignCalls(last_run.ops) # {} =>
              /\ last_run.first = "unsigned"
              /\ SignCalls(last_run.ops) = {2}
              /\ last_run.ops[1] = "status"
        /\ last_run.first = "none" =>
              /\ last_run.ret = "false"
              /\ last_run.ops = <<"status">>

\* run() got past the check-in: the first status fetch reported is_sign
\* true, or perform_checkin was called and returned True (the re-fetch that
\* follows it was made)
CheckinConfirmed == last_run.first = "signed" \/ last_run.again # "none"

(* C21: run() ends with True exactly when the first status fetch gave a    *)
(* status and either that status had is_sign true or perform_checkin       *)
(* returned True; nothing that happens afterwards (the status re-fetch,    *)
(* the reward fetches, display_status) makes the game fail.                *)
C21_WorkflowResult ==
    last_run.game # "none" => (last_run.ret = "true" <=> CheckinConfirmed)

-----------------------------------------------------------------------------
(* Claims about the client operations (SpecExec) *)

\* the client operation has returned or raised
Returned == req.state = "done" /\ call.op # "none"

C24_FollowsCurrentEndpoint ==
    req.state = "running" => req.url = current_endpoint[req.game]

\* the step is an attempt of the running request
AttemptMade == req.state = "running" /\ req'.sent = req.sent + 1

(* C25 as stated: an attempt answered with retcode -500001, -1, -10001 or  *)
(* with a body without retcode calls _try_next_endpoint; when that         *)
(* returned True the request is retried, and when it returned False the    *)
(* request ends in that step with the parsed body.                         *)
C25_RetryableDispatch ==
    [][(AttemptMade /\ req'.last_retryable) =>
          /\ req'.adv_called
          /\ req'.adv_ret => req'.state = "running"
          /\ ~req'.adv_ret => (req'.state = "done" /\ req'.result.kind = "json")]_vars

(* C25 amended: as above, but after a successful advance the request is    *)
(* retried only when fewer than max_retries attempts have been sent;       *)
(* after the last attempt the request ends with None.                      *)
C25_RetryableDispatchWithinBudget ==
    [][(AttemptMade /\ req'.last_retryable) =>
          /\ req'.adv_called
          /\ (req'.adv_ret /\ req'.sent < config.max_retries) => req'.state = "running"
          /\ (req'.adv_ret /\ req'.sent >= config.max_retries) =>
                (req'.state = "done" /\ req'.result = None)
          /\ ~req'.adv_ret =>
                /\ req'.state = "done" /\ req'.result.kind = "json"
                /\ RetcodeOrDefault(req'.result) \in {-500001, -1, -10001}]_vars

C25_Witness ==
    /\ req.state = "done" /\ req.last_retryable
    /\ req.adv_called /\ ~req.adv_ret
    /\ req.result.kind = "json" /\ req.sent = 3

(* C26: an attempt that times out calls _try_next_endpoint; as long as     *)
(* fewer than max_retries attempts have been sent the request is then      *)
(* retried, both when the advance succeeded and when no fallback remained. *)
C26_TimeoutHandling ==
    [][(AttemptMade /\ req'.last = "timeout") =>
          /\ req'.adv_called
          /\ req'.sent < config.max_retries => req'.state = "running"]_vars

C12_SuccessCodeMapping ==
    (Returned /\ call.op = "perform_checkin") =>
        IF IsRetcode(req.result, 0) \/ IsRetcode(req.result, -5003)
        THEN call.ret = "true"
        ELSE call.ret = "false"

C18_UnauthorizedTerminal ==
    [][(req.state = "running" /\ req'.sent = req.sent + 1 /\ req'.last = "http401") =>
          /\ req'.state = "done"
          /\ req'.result = None
          /\ endpoint_index' = endpoint_index
          /\ current_endpoint' = current_endpoint]_vars

C18_Witness ==
    /\ req.state = "done" /\ req.last = "http401" /\ req.result = None
    /\ req.sent = 2 /\ config.max_retries = 3
    /\ endpoint_index[req.game] = 1

(* C19: when get_checkin_info or perform_checkin meets an authorization    *)
(* failure - HTTP 401 on the last attempt, or a body with retcode -100 -   *)
(* the request ends with that attempt, the cookie help is printed and one  *)
(* failure notification is sent.                                           *)
C19_AuthFailureReporting ==
    (/\ Returned
     /\ call.op \in {"get_checkin_info", "perform_checkin"}
     /\ (req.last = "http401" \/ IsRetcode(req.result, -100)))
        => /\ call.help
           /\ call.notes = <<FALSE>>

====
